---- MODULE Spec2Model ----
(***************************************************************************)
(* Checkout shipping forms: the address-to-form-values mapper, the         *)
(* single-address form (debounced remote updates, address selection) and   *)
(* the multi-address form (per-item assignment).                           *)
(***************************************************************************)
EXTENDS Integers, Sequences, FiniteSets, Bags, TLC

\* ------------------------------------------------------------------ bounds
MaxFields == 2

\* ------------------------------------------------------------- JS values
\* A JavaScript value is a record [t, v]: its type tag and a string payload.
\* An array is kept by the string Array.prototype.toString gives (its join).
Undef == [t |-> "undefined", v |-> ""]
Str(s) == [t |-> "string", v |-> s]
Arr(s) == [t |-> "array", v |-> s]
Bool(b) == [t |-> "boolean", v |-> IF b THEN "true" ELSE "false"]
\* new Date(string): a date parsed from the whole string
ParsedDate(s) == [t |-> "date", v |-> s]
\* new Date(year, month - 1, day): a local date from the split parts
LocalDate(s) == [t |-> "localdate", v |-> s]

\* JS truthiness of a value
Truthy(x) ==
    CASE x.t = "undefined" -> FALSE
      [] x.t = "string" -> x.v # ""
      [] x.t = "boolean" -> x.v = "true"
      [] OTHER -> TRUE

\* Date.prototype.toString of the dates the model uses
DateToString(s) ==
    CASE s = "2024-01-02" -> "Tue Jan 02 2024"
      [] s = "2020-05-05" -> "Tue May 05 2020"
      [] OTHER -> "Invalid Date"

\* x?.toString() || ''
ToStringOrEmpty(x) ==
    CASE x.t = "undefined" -> Str("")
      [] x.t \in {"date", "localdate"} -> Str(DateToString(x.v))
      [] OTHER -> Str(x.v)

\* f with key k set to v (k may be new)
Put(f, k, v) == [x \in DOMAIN f \cup {k} |-> IF x = k THEN v ELSE f[x]]

EmptyObject == [x \in {} |-> Undef]

\* --------------------------------------------------------- form fields
Field(name, custom, fieldType, default, required) ==
    [name |-> name, custom |-> custom, fieldType |-> fieldType, default |-> default,
     required |-> required]

\* address[name] of an optional address: undefined when there is no address
\* or the address has no such key
AddressGet(address, name) ==
    IF address.defined /\ name \in DOMAIN address.top THEN address.top[name] ELSE Undef

NoAddress == [defined |-> FALSE, top |-> EmptyObject, customFields |-> <<>>]

\* ------------------------------------------- mapAddressToFormValues.ts
getDefaultValue(fieldType, defaultValue) ==
    IF Truthy(defaultValue) /\ fieldType = "date" THEN ParsedDate(defaultValue.v)
    ELSE IF fieldType = "checkbox" THEN Arr("")
    ELSE IF Truthy(defaultValue) THEN defaultValue ELSE Str("")

\* a lookup that prefers the configured default to the address's value
getValueDefaultFirst(fieldType, fieldValue, defaultValue) ==
    IF Truthy(defaultValue) THEN getDefaultValue(fieldType, defaultValue) ELSE fieldValue

getValue(fieldType, fieldValue, defaultValue) ==
    IF fieldValue.t = "undefined" THEN getDefaultValue(fieldType, defaultValue)
    ELSE IF fieldType = "date" /\ fieldValue.t = "string"
         THEN IF fieldValue.v # "" THEN LocalDate(fieldValue.v) ELSE Undef
    ELSE fieldValue

isSystemAddressFieldName(fieldName) ==
    fieldName # "customFields" /\ fieldName # "shouldSaveAddress"

\* the value of the address's custom field `name`, undefined when it has none
AddressCustomValue(address, name) ==
    IF \E i \in 1..Len(address.customFields) : address.customFields[i].fieldId = name
    THEN LET i == CHOOSE j \in 1..Len(address.customFields) :
                      address.customFields[j].fieldId = name
         IN address.customFields[i].fieldValue
    ELSE Undef

\* a mapper that pre-fills a custom field from the address when it has a value
CustomFieldInitialValuePrefilled(f, address) ==
    IF AddressCustomValue(address, f.name).t # "undefined"
    THEN AddressCustomValue(address, f.name)
    ELSE IF f.fieldType = "checkbox" THEN Arr("")
    ELSE IF f.fieldType = "date"
         THEN IF Truthy(f.default) THEN getDefaultValue(f.fieldType, f.default) ELSE Str("")
    ELSE IF f.fieldType = "dropdown" /\ Truthy(f.default) THEN f.default
    ELSE Str("")

\* lines 23-35: the initial value of a custom field
CustomFieldInitialValue(f, address) ==
    IF f.fieldType = "checkbox" THEN Arr("")
    ELSE IF f.fieldType = "date"
         THEN IF Truthy(f.default) THEN getDefaultValue(f.fieldType, f.default) ELSE Str("")
    ELSE IF f.fieldType = "dropdown" /\ Truthy(f.default) THEN f.default
    ELSE Str("")

\* one step of fields.reduce
ReduceField(acc, f, address) ==
    IF f.custom
    THEN [acc EXCEPT !.hasCustomFields = TRUE,
                     !.customFields = Put(acc.customFields, f.name,
                                          CustomFieldInitialValue(f, address))]
    ELSE IF isSystemAddressFieldName(f.name)
         THEN [acc EXCEPT !.top = Put(acc.top, f.name,
                   ToStringOrEmpty(getValue(f.fieldType, AddressGet(address, f.name),
                                            f.default)))]
    ELSE acc

RECURSIVE ReduceFields(_, _, _)
ReduceFields(fields, n, address) ==
    IF n = 0
    THEN [top |-> EmptyObject, hasCustomFields |-> FALSE, customFields |-> EmptyObject]
    ELSE ReduceField(ReduceFields(fields, n - 1, address), fields[n], address)

BackfillNever(top, key) == top

Backfill(top, key) == IF key \in DOMAIN top THEN top ELSE Put(top, key, Str(""))

mapAddressToFormValues(fields, address) ==
    LET reduced == ReduceFields(fields, Len(fields), address)
        saved == IF address.defined /\ AddressGet(address, "shouldSaveAddress").t # "undefined"
                 THEN AddressGet(address, "shouldSaveAddress")
                 ELSE Bool(TRUE)
        withSave == Put(reduced.top, "shouldSaveAddress", saved)
    IN [reduced EXCEPT !.top =
            Backfill(Backfill(withSave, "stateOrProvince"), "stateOrProvinceCode")]

\* ------------------------------------------------ inputs of the mapper
FieldPool ==
    { Field("city", FALSE, "text", Undef, FALSE),
      Field("city", FALSE, "text", Str("Austin"), FALSE),
      Field("stateOrProvince", FALSE, "text", Undef, FALSE),
      Field("stateOrProvinceCode", FALSE, "text", Undef, FALSE),
      Field("stateOrProvince", FALSE, "text", Str("Texas"), FALSE),
      Field("customFields", FALSE, "text", Undef, FALSE),
      Field("field_25", TRUE, "text", Undef, FALSE),
      Field("field_25", TRUE, "text", Str("preset"), FALSE),
      Field("field_27", TRUE, "checkbox", Undef, FALSE),
      Field("field_29", TRUE, "date", Str("2024-01-02"), FALSE),
      Field("field_29", TRUE, "date", Undef, FALSE),
      Field("field_31", TRUE, "dropdown", Str("opt1"), FALSE),
      Field("field_31", TRUE, "dropdown", Undef, FALSE),
      Field("stateOrProvince", TRUE, "text", Undef, FALSE),
      Field("deliveryDate", FALSE, "date", Str("2024-01-02"), FALSE),
      Field("deliveryDate", FALSE, "checkbox", Str("yes"), FALSE) }

FieldLists == UNION { [1..n -> FieldPool] : n \in 0..MaxFields }

CustomValue(id, value) == [fieldId |-> id, fieldValue |-> value]

AddressCustomPool ==
    { <<>>,
      << CustomValue("field_25", Str("secret")) >>,
      << CustomValue("field_25", Str("other")), CustomValue("field_27", Arr("a")),
         CustomValue("field_29", Str("2020-05-05")), CustomValue("field_31", Str("opt2")),
         CustomValue("stateOrProvince", Str("leak")) >> }

AddressTopPool ==
    { EmptyObject,
      [x \in {"city", "stateOrProvince"} |->
          IF x = "city" THEN Str("Paris") ELSE Str("TX")],
      [x \in {"city", "stateOrProvinceCode", "shouldSaveAddress"} |->
          IF x = "city" THEN Str("") ELSE IF x = "shouldSaveAddress" THEN Bool(FALSE)
          ELSE Str("TX")],
      [x \in {"city", "deliveryDate"} |->
          IF x = "city" THEN Str("Rome") ELSE Str("2020-05-05")],
      [x \in {"deliveryDate"} |-> Str("")] }

Address(top, customFields) ==
    [defined |-> TRUE, top |-> top, customFields |-> customFields]

NoValues == [top |-> EmptyObject, hasCustomFields |-> FALSE, customFields |-> EmptyObject]

\* ----------------------------------------- collaborators of the forms
\* getFields(countryCode): the field list of a country
USFields ==
    << Field("countryCode", FALSE, "text", Undef, TRUE),
       Field("city", FALSE, "text", Undef, TRUE),
       Field("stateOrProvince", FALSE, "text", Undef, FALSE),
       Field("field_25", TRUE, "text", Undef, TRUE) >>

CAFields ==
    << Field("countryCode", FALSE, "text", Undef, TRUE),
       Field("city", FALSE, "text", Undef, TRUE),
       Field("stateOrProvince", FALSE, "text", Undef, FALSE),
       Field("field_31", TRUE, "dropdown", Str("opt1"), FALSE) >>

getFields(countryCode) == IF countryCode = Str("CA") THEN CAFields ELSE USFields

FieldNames(fields) == { fields[i].name : i \in 1..Len(fields) }

\* the order in which an object's custom-field keys are enumerated
CustomFieldOrder == << "field_25", "field_27", "field_29", "field_31" >>

\* mapAddressFromFormValues: the nested customFields mapping becomes the
\* address's list of {fieldId, fieldValue}; every other key is kept
mapAddressFromFormValues(formValues) ==
    LET present == SelectSeq(CustomFieldOrder, LAMBDA n : n \in DOMAIN formValues.customFields)
    IN [defined |-> TRUE,
        top |-> formValues.top,
        customFields |-> [i \in 1..Len(present) |->
                             CustomValue(present[i], formValues.customFields[present[i]])]]

\* the address without the form-only shouldSaveAddress key
AddressContent(address) ==
    [top |-> [k \in DOMAIN address.top \ {"shouldSaveAddress"} |-> address.top[k]],
     customFields |-> address.customFields]

\* isEqualAddress: two addresses that are both present and hold the same content
isEqualAddress(address1, address2) ==
    /\ address1.defined
    /\ address2.defined
    /\ AddressContent(address1) = AddressContent(address2)

\* the canonical shipping-address field set
SHIPPING_ADDRESS_FIELDS ==
    { "address1", "address2", "city", "postalCode", "stateOrProvince",
      "stateOrProvinceCode", "countryCode" }

\* hasSelectedShippingOptions: a consignment is kept as the flag "has a
\* selected shipping option"
hasSelectedShippingOptions(consignments) ==
    \A i \in 1..Len(consignments) : consignments[i]

\* PaymentMethodId
BraintreeAcceleratedCheckout == "braintreeacceleratedcheckout"
PayPalCommerceAcceleratedCheckout == "paypalcommerceacceleratedcheckout"
\* a method identifier that is undefined
NoMethod == ""

\* ------------------------------------------------ validation schemas
\* the schema with the exclusion list turned around
shouldHaveCustomValidationInverted(methodId) ==
    methodId \in { BraintreeAcceleratedCheckout, PayPalCommerceAcceleratedCheckout }

shouldHaveCustomValidation(methodId) ==
    /\ methodId # NoMethod
    /\ methodId \notin { BraintreeAcceleratedCheckout, PayPalCommerceAcceleratedCheckout }

\* getCustomFormFieldsValidationSchema(...).isValidSync(formValues):
\* object({ customFields: object().nullable(true) }) accepts every form value
CustomSchemaIsValid(fields, formValues) == TRUE

\* getAddressFormFieldsValidationSchema(...).isValidSync(formValues): every
\* required field of the list holds a non-empty value
AddressSchemaIsValid(fields, formValues) ==
    \A i \in 1..Len(fields) :
        fields[i].required =>
            IF fields[i].custom
            THEN /\ fields[i].name \in DOMAIN formValues.customFields
                 /\ Truthy(formValues.customFields[fields[i].name])
            ELSE /\ fields[i].name \in DOMAIN formValues.top
                 /\ Truthy(formValues.top[fields[i].name])

\* the same schema applied to an address record (isInitialValid)
AddressSchemaIsValidAddress(fields, address) ==
    \A i \in 1..Len(fields) :
        fields[i].required =>
            IF fields[i].custom
            THEN Truthy(AddressCustomValue(address, fields[i].name))
            ELSE Truthy(AddressGet(address, fields[i].name))

\* validationSchema: which schema validates values.shippingAddress
validationSchema(methodId) ==
    IF shouldHaveCustomValidation(methodId)
    THEN "getCustomFormFieldsValidationSchema"
    ELSE "getAddressFormFieldsValidationSchema"

FormCountry(formValues) ==
    IF "countryCode" \in DOMAIN formValues.top THEN formValues.top["countryCode"] ELSE Undef

\* Formik's validation of the form values under the chosen schema
ValidateForm(methodId, formValues) ==
    IF validationSchema(methodId) = "getCustomFormFieldsValidationSchema"
    THEN CustomSchemaIsValid(getFields(FormCountry(formValues)), formValues)
    ELSE AddressSchemaIsValid(getFields(FormCountry(formValues)), formValues)

isInitialValid(shippingAddress) ==
    /\ shippingAddress.defined
    /\ AddressSchemaIsValidAddress(getFields(AddressGet(shippingAddress, "countryCode")),
                                   shippingAddress)

\* --------------------------------------------- SingleShippingForm.tsx
\* lines 157-175, 340-358, 385-403: every custom field of the country is
\* overwritten with [] (checkbox) or ''
RECURSIVE ResetCustomFields(_, _, _)
ResetCustomFields(customFields, fields, n) ==
    IF n = 0 THEN customFields
    ELSE LET rest == ResetCustomFields(customFields, fields, n - 1)
         IN IF fields[n].custom
            THEN Put(rest, fields[n].name,
                     IF fields[n].fieldType = "checkbox" THEN Arr("") ELSE Str(""))
            ELSE rest

\* the form values an address is shown with after a load or a selection
ResetAddressFormValues(address) ==
    LET fields == getFields(AddressGet(address, "countryCode"))
        addressFormValues == mapAddressToFormValues(fields, address)
    IN IF addressFormValues.hasCustomFields
       THEN [addressFormValues EXCEPT
               !.customFields = ResetCustomFields(addressFormValues.customFields,
                                                  fields, Len(fields))]
       ELSE addressFormValues

mapPropsToValues(shippingAddress) ==
    mapAddressToFormValues(getFields(AddressGet(shippingAddress, "countryCode")),
                           shippingAddress)

\* lodash debounce keeps one pending invocation: the timer and the last arguments
DebounceIdle == [armed |-> FALSE, address |-> NoAddress, includeShippingOptions |-> FALSE]

\* debouncedUpdateAddress(address, includeShippingOptions): the call overwrites
\* the pending arguments and restarts the timer
DebounceCall(cell, address, includeShippingOptions) ==
    [armed |-> TRUE, address |-> address, includeShippingOptions |-> includeShippingOptions]

\* a handler that never compares the custom fields
UpdatePayloadFlagOnly(formValues, shippingAddress, includeShippingOptions) ==
    [address |-> mapAddressFromFormValues(formValues),
     includeShippingOptions |-> includeShippingOptions]

\* lines 309-316: the address and the flag updateAddressWithFormData computes
UpdatePayload(formValues, shippingAddress, includeShippingOptions) ==
    LET updatedShippingAddress == mapAddressFromFormValues(formValues)
    IN [address |-> updatedShippingAddress,
        includeShippingOptions |->
            IF shippingAddress.defined
            THEN (shippingAddress.customFields # updatedShippingAddress.customFields)
                    \/ includeShippingOptions
            ELSE includeShippingOptions]

\* an update that is sent even when nothing changed
ShouldSkipUpdateNever(updatedShippingAddress, shippingAddress) == FALSE

\* line 318: no update when the computed address equals the synced one
ShouldSkipUpdate(updatedShippingAddress, shippingAddress) ==
    isEqualAddress(updatedShippingAddress, shippingAddress)

\* lines 262-277 (the HEAD side of the unresolved merge, the only side whose
\* names are all bound)
shouldDisableSubmit(isLoadingProp, isUpdating, consignmentsProp) ==
    isLoadingProp \/ isUpdating \/ ~hasSelectedShippingOptions(consignmentsProp)

\* ---------------------------------------------- MultiShippingForm.tsx
\* a cart line item, and a consignment row: `quantity` units of a line item
\* shipped to an address
LineItem(itemId, quantity) == [itemId |-> itemId, quantity |-> quantity]
Row(address, itemId, quantity) ==
    [address |-> address, itemId |-> itemId, quantity |-> quantity]

\* a shippable item: one unit of a line item, with the address it is
\* assigned to (NoAddress while unassigned)
ShippableItem(itemId, unit, address) ==
    [key |-> <<itemId, unit>>, itemId |-> itemId, address |-> address]

RECURSIVE getShippableItemsCount(_)
getShippableItemsCount(cart) ==
    IF cart = <<>> THEN 0 ELSE Head(cart).quantity + getShippableItemsCount(Tail(cart))

\* the addresses of the units of a line item, in the order of the rows
RECURSIVE UnitAddresses(_, _)
UnitAddresses(rows, itemId) ==
    IF rows = <<>> THEN <<>>
    ELSE (IF Head(rows).itemId = itemId
          THEN [n \in 1..Head(rows).quantity |-> Head(rows).address]
          ELSE <<>>) \o UnitAddresses(Tail(rows), itemId)

\* getShippableLineItems: the whole item list, rebuilt from the cart and the
\* consignments
RECURSIVE getShippableLineItems(_, _)
getShippableLineItems(cart, rows) ==
    IF cart = <<>> THEN <<>>
    ELSE LET item == Head(cart)
             assigned == UnitAddresses(rows, item.itemId)
         IN [n \in 1..item.quantity |->
                ShippableItem(item.itemId, n,
                              IF n <= Len(assigned) THEN assigned[n] ELSE NoAddress)]
            \o getShippableLineItems(Tail(cart), rows)

\* items.findIndex(item => item.key === key): 0 when there is none
FindIndex(items, key) ==
    IF \E i \in 1..Len(items) : items[i].key = key
    THEN CHOOSE i \in 1..Len(items) :
            /\ items[i].key = key
            /\ \A j \in 1..(i - 1) : items[j].key # key
    ELSE 0

\* updateShippableItems: the list rebuilt from the returned cart and
\* consignments, the item of the selection shown with the selected address
updateShippableItems(currentItems, updatedItemIndex, address, cart, rows) ==
    LET fresh == getShippableLineItems(cart, rows)
    IN [i \in 1..Len(fresh) |->
           IF i = updatedItemIndex /\ i <= Len(currentItems)
           THEN [currentItems[i] EXCEPT !.address = address]
           ELSE fresh[i]]

\* isValidAddress: the address against the fields of its country; without
\* validateAddressFields only the custom fields are checked
isValidAddress(address, fields, validateAddressFields) ==
    \A i \in 1..Len(fields) :
        (fields[i].required /\ (validateAddressFields \/ fields[i].custom)) =>
            IF fields[i].custom
            THEN Truthy(AddressCustomValue(address, fields[i].name))
            ELSE Truthy(AddressGet(address, fields[i].name))

\* a handler that sends every address to assignItem
SelectionIsRejectedNever(address, validateAddressFields) == FALSE

\* line 222: the selection stops before any remote call
SelectionIsRejected(address, validateAddressFields) ==
    ~isValidAddress(address, getFields(AddressGet(address, "countryCode")),
                    validateAddressFields)

\* lines 238-242: what onUnhandledError has received after assignItem failed
AssignFailureReported(errors, reason) ==
    IF reason = "Error" THEN Append(errors, "AssignItemFailedError") ELSE errors

\* lines 186-190: this.state after createCustomerAddress failed
CreateFailureStored(st, reason) ==
    IF reason = "Error" THEN [st EXCEPT !.createCustomerAddressError = reason] ELSE st

\* a component that never rebuilds its list from the props
getDerivedStateFromPropsNever(props, st) == st

\* lines 76-85: getDerivedStateFromProps, run at every render
getDerivedStateFromProps(props, st) ==
    IF getShippableItemsCount(props.cart) # Len(st.items)
    THEN [st EXCEPT !.items = getShippableLineItems(props.cart, props.consignments)]
    ELSE st

\* the checkout after assignItem took one unit of the line item to the
\* address: a unit not yet assigned, else a unit of another row
RECURSIVE AssignedQuantity(_, _)
AssignedQuantity(rows, itemId) ==
    IF rows = <<>> THEN 0
    ELSE (IF Head(rows).itemId = itemId THEN Head(rows).quantity ELSE 0)
         + AssignedQuantity(Tail(rows), itemId)

CartQuantity(cart, itemId) ==
    IF \E i \in 1..Len(cart) : cart[i].itemId = itemId
    THEN (cart[CHOOSE i \in 1..Len(cart) : cart[i].itemId = itemId]).quantity
    ELSE 0

AddUnit(rows, address, itemId) ==
    IF \E i \in 1..Len(rows) : rows[i].address = address /\ rows[i].itemId = itemId
    THEN [i \in 1..Len(rows) |->
            IF rows[i].address = address /\ rows[i].itemId = itemId
            THEN [rows[i] EXCEPT !.quantity = @ + 1] ELSE rows[i]]
    ELSE Append(rows, Row(address, itemId, 1))

TakeUnit(rows, address, itemId) ==
    IF \E i \in 1..Len(rows) : rows[i].itemId = itemId /\ rows[i].address # address
    THEN LET k == CHOOSE i \in 1..Len(rows) :
                     /\ rows[i].itemId = itemId /\ rows[i].address # address
                     /\ \A j \in 1..(i - 1) :
                           ~(rows[j].itemId = itemId /\ rows[j].address # address)
             less == [rows EXCEPT ![k].quantity = @ - 1]
         IN SelectSeq(less, LAMBDA r : r.quantity > 0)
    ELSE rows

ItemAssigned(data, address, itemId) ==
    IF CartQuantity(data.cart, itemId) = 0 THEN data
    ELSE IF AssignedQuantity(data.consignments, itemId) < CartQuantity(data.cart, itemId)
    THEN [data EXCEPT !.consignments = AddUnit(data.consignments, address, itemId)]
    ELSE [data EXCEPT !.consignments =
             IF TakeUnit(data.consignments, address, itemId) = data.consignments
             THEN data.consignments
             ELSE AddUnit(TakeUnit(data.consignments, address, itemId), address, itemId)]

\* ------------------------------------------------------------- state
\* the mapper's inputs and results
VARIABLES mFields, mAddressA, mAddressB, mValuesA, mValuesB, mDone

\* SingleShippingForm: this.props, this.state, the debounce cell, the remote
\* calls in flight, the handleFieldChange continuations waiting for their
\* timeout, the errors given to onUnhandledError, the user operations so far,
\* the history of the current debounce window, the windows not yet fired,
\* the outcome of the latest handleFieldChange, the outcome of the latest
\* remote call that settled, and the form values besides shippingAddress
VARIABLES singleProps, singleState, debounced, inFlight, pendingFieldChanges,
          unhandledErrors, nOps, window, owed, lastTick, lastSettled, otherValues

\* MultiShippingForm: this.props, this.state, the handlers suspended at an
\* await, the errors given to onUnhandledError, the user operations so far
\* and the latest step of a handler
VARIABLES multiProps, multiState, multiCalls, multiErrors, multiOps, multiLast

\* the schema selection: its input and its result
VARIABLES schemaInput, schemaResult

mapVars == <<mFields, mAddressA, mAddressB, mValuesA, mValuesB, mDone>>

singleVars == <<singleProps, singleState, debounced, inFlight, pendingFieldChanges,
                unhandledErrors, nOps, window, owed, lastTick, lastSettled, otherValues>>

multiVars == <<multiProps, multiState, multiCalls, multiErrors, multiOps, multiLast>>

schemaVars == <<schemaInput, schemaResult>>

vars == <<mapVars, singleVars, multiVars, schemaVars>>

\* the history of a debounce window: the edits it saw (counted up to 2), and
\* whether the pending arguments are those computed at the latest edit and
\* those of the latest edit that asked for an update
WindowClosed == [edits |-> 0, holdsComputed |-> TRUE, holdsScheduled |-> TRUE]

\* how the latest remote call settled: "resolved" or "rejected" for a debounced
\* update; for a selection "applied", "stale" (applied after the result of a
\* selection requested later) or "failed"
NoSettle == "none"

\* billingSameAsShipping and orderComment as mapPropsToValues and
\* componentDidUpdate take them from the props isBillingSameAsShipping and
\* customerMessage
PropsOtherValues == [billingSameAsShipping |-> TRUE, orderComment |-> ""]

\* itemAddingAddress: undefined
NoItem == [key |-> <<"", 0>>, itemId |-> ""]

\* createCustomerAddressError: undefined
NoError == ""

NoStep == [event |-> "none", address |-> NoAddress, reason |-> "", assigned |-> FALSE]

\* the mapper at rest, for the specifications of the forms
MapIdle ==
    /\ mFields = <<>>
    /\ mAddressA = NoAddress
    /\ mAddressB = NoAddress
    /\ mValuesA = NoValues
    /\ mValuesB = NoValues
    /\ mDone = FALSE

\* the single-address form at rest, for the other specifications
SingleIdle ==
    /\ singleProps = [shippingAddress |-> NoAddress, isLoading |-> FALSE,
                      consignments |-> <<>>, methodId |-> NoMethod,
                      values |-> NoValues, isValid |-> FALSE]
    /\ singleState = [isResettingAddress |-> FALSE, isUpdatingShippingData |-> FALSE,
                      hasRequestedShippingOptions |-> FALSE]
    /\ debounced = DebounceIdle
    /\ inFlight = EmptyBag
    /\ pendingFieldChanges = <<>>
    /\ unhandledErrors = 0
    /\ nOps = 0
    /\ window = WindowClosed
    /\ owed = 0
    /\ lastTick = "none"
    /\ lastSettled = NoSettle
    /\ otherValues = PropsOtherValues

\* the multi-address form at rest, for the other specifications
MultiIdle ==
    /\ multiProps = [cart |-> <<>>, consignments |-> <<>>, validateAddressFields |-> FALSE]
    /\ multiState = [items |-> <<>>, itemAddingAddress |-> NoItem,
                     createCustomerAddressError |-> NoError]
    /\ multiCalls = EmptyBag
    /\ multiErrors = <<>>
    /\ multiOps = 0
    /\ multiLast = NoStep

\* the schema selection at rest, for the other specifications
SchemaIdle ==
    /\ schemaInput = [methodId |-> NoMethod, values |-> NoValues]
    /\ schemaResult = [done |-> FALSE, schema |-> "", isValid |-> FALSE]


\* the field list and two addresses that differ only in their customFields
MapInit ==
    /\ mFields \in FieldLists
    /\ \/ /\ mAddressA = NoAddress
          /\ mAddressB = NoAddress
       \/ \E top \in AddressTopPool, ca, cb \in AddressCustomPool :
             /\ mAddressA = Address(top, ca)
             /\ mAddressB = Address(top, cb)
    /\ mValuesA = NoValues
    /\ mValuesB = NoValues
    /\ mDone = FALSE
    /\ SingleIdle
    /\ MultiIdle
    /\ SchemaIdle

MapBoth ==
    /\ ~mDone
    /\ mValuesA' = mapAddressToFormValues(mFields, mAddressA)
    /\ mValuesB' = mapAddressToFormValues(mFields, mAddressB)
    /\ mDone' = TRUE
    /\ UNCHANGED <<mFields, mAddressA, mAddressB, singleVars, multiVars, schemaVars>>

MapNext == MapBoth

MapSpec == MapInit /\ [][MapNext]_vars

\* the last field of the list named `name` among the custom fields
LastCustomField(fields, name) ==
    fields[CHOOSE i \in 1..Len(fields) :
              /\ fields[i].custom /\ fields[i].name = name
              /\ \A j \in (i + 1)..Len(fields) : ~(fields[j].custom /\ fields[j].name = name)]

CustomNames(fields) == { fields[i].name : i \in { j \in 1..Len(fields) : fields[j].custom } }

\* the type default the claim states for a custom field
TypeDefault(f) ==
    CASE f.fieldType = "checkbox" -> Arr("")
      [] f.fieldType = "date" ->
            IF f.default.t = "string" /\ f.default.v # "" THEN ParsedDate(f.default.v) ELSE Str("")
      [] f.fieldType = "dropdown" ->
            IF f.default.t = "string" /\ f.default.v # "" THEN f.default ELSE Str("")
      [] OTHER -> Str("")

\* C1: two addresses that differ only in customFields map to the same form
\* values, and every custom field holds its type default.
C1_CustomFieldsNeverCarried ==
    mDone =>
        /\ mValuesA = mValuesB
        /\ DOMAIN mValuesA.customFields = CustomNames(mFields)
        /\ \A name \in CustomNames(mFields) :
              mValuesA.customFields[name] = TypeDefault(LastCustomField(mFields, name))

\* a list with a custom field for which the two addresses hold different values
C1_Witness ==
    /\ mDone
    /\ \E name \in CustomNames(mFields) :
          /\ AddressCustomValue(mAddressA, name).t # "undefined"
          /\ AddressCustomValue(mAddressA, name) # AddressCustomValue(mAddressB, name)


StateKeys == { "stateOrProvince", "stateOrProvinceCode" }

\* the last field of the list named `name` among the system fields
LastSystemField(fields, name) ==
    fields[CHOOSE i \in 1..Len(fields) :
              /\ ~fields[i].custom /\ fields[i].name = name
              /\ \A j \in (i + 1)..Len(fields) : ~(~fields[j].custom /\ fields[j].name = name)]

SystemNames(fields) == { fields[i].name : i \in { j \in 1..Len(fields) : ~fields[j].custom } }

\* the configured default of the system field `key`, when the list has one
ConfiguredDefault(fields, key) ==
    IF key \in SystemNames(fields) /\ Truthy(LastSystemField(fields, key).default)
    THEN LastSystemField(fields, key).default
    ELSE Str("")

SystemKeys(fields) ==
    { name \in SystemNames(fields) : name # "customFields" /\ name # "shouldSaveAddress" }

\* the configured default of a system field converted by its type and then to
\* a string: a date default is parsed and printed as a date, a checkbox has
\* the empty list, whose string is empty
DefaultAsString(f) ==
    IF ~Truthy(f.default) THEN Str("")
    ELSE CASE f.fieldType = "date" -> Str(DateToString(f.default.v))
           [] f.fieldType = "checkbox" -> Str("")
           [] OTHER -> Str(f.default.v)

\* the value C22 states for a system field: the string of the address's value
\* when it has one, the converted default otherwise
StatedSystemValue(f, address) ==
    IF AddressGet(address, f.name).t # "undefined"
    THEN Str(AddressGet(address, f.name).v)
    ELSE DefaultAsString(f)

\* the same, with the address's value converted by the type of the field
\* first: a date field parses a non-empty string as a local date and prints
\* it as a date
TypedSystemValue(f, address) ==
    IF AddressGet(address, f.name).t = "undefined" THEN DefaultAsString(f)
    ELSE IF f.fieldType = "date" /\ AddressGet(address, f.name).t = "string"
              /\ AddressGet(address, f.name).v # ""
         THEN Str(DateToString(AddressGet(address, f.name).v))
    ELSE Str(AddressGet(address, f.name).v)

\* C22 as stated: every system field maps to the address's value converted to
\* a string when the address has one, otherwise to the configured default
\* converted by type, otherwise to the empty string.
C22_SystemValueIsAddressString ==
    mDone =>
        \A name \in SystemKeys(mFields) :
            /\ name \in DOMAIN mValuesA.top
            /\ mValuesA.top[name] = StatedSystemValue(LastSystemField(mFields, name), mAddressA)

\* C22: every system field maps to a string, never to undefined or null: the
\* address's value converted by the type of the field and then to a string
\* when the address has one, otherwise the configured default converted by
\* type, otherwise the empty string.
C22_SystemValueIsTypedString ==
    mDone =>
        \A name \in SystemKeys(mFields) :
            /\ name \in DOMAIN mValuesA.top
            /\ mValuesA.top[name].t = "string"
            /\ mValuesA.top[name] = TypedSystemValue(LastSystemField(mFields, name), mAddressA)

\* a list with a date field and a text field with a default, and an address
\* that has a date for the first and a city for the second
C22_Witness ==
    /\ mDone
    /\ {"deliveryDate", "city"} \subseteq SystemKeys(mFields)
    /\ LastSystemField(mFields, "deliveryDate").fieldType = "date"
    /\ Truthy(LastSystemField(mFields, "city").default)
    /\ AddressGet(mAddressA, "deliveryDate") = Str("2020-05-05")
    /\ mValuesA.top["deliveryDate"] = Str("Tue May 05 2020")
    /\ mValuesA.top["city"] = Str("Rome")
\* ------------------------------------------- SingleShippingForm: inputs
MaxOps == 3
MaxInFlight == 2
MaxPendingTicks == 1

AddressTop(countryCode, city, stateOrProvince, stateOrProvinceCode) ==
    [k \in {"countryCode", "city", "stateOrProvince", "stateOrProvinceCode"} |->
        CASE k = "countryCode" -> Str(countryCode)
          [] k = "city" -> Str(city)
          [] k = "stateOrProvince" -> Str(stateOrProvince)
          [] OTHER -> Str(stateOrProvinceCode)]

HomeUS == Address(AddressTop("US", "Paris", "Texas", "TX"),
                  << CustomValue("field_25", Str("gift")) >>)

OfficeCA == Address(AddressTop("CA", "Rome", "", ""),
                    << CustomValue("field_31", Str("opt2")) >>)

SavedAddresses == { HomeUS, OfficeCA }

\* what the user can type or pick: <<field name, new value>>
FieldEdits ==
    { <<"countryCode", "CA">>, <<"city", "Paris">>, <<"city", "Rome">>,
      <<"field_25", "gift">> }

ConsignmentPool == { <<TRUE>>, <<TRUE, FALSE>> }

MethodPool == { NoMethod, "amazonpay" }

IsCustomFieldName(fields, name) ==
    \E i \in 1..Len(fields) : fields[i].custom /\ fields[i].name = name

FormValue(formValues, name) ==
    IF name \in DOMAIN formValues.top THEN formValues.top[name]
    ELSE IF name \in DOMAIN formValues.customFields THEN formValues.customFields[name]
    ELSE Undef

\* the field component stores the new value in the form (setFieldValue)
SetFormValue(formValues, name, value) ==
    IF IsCustomFieldName(getFields(FormCountry(formValues)), name)
    THEN [formValues EXCEPT !.customFields = Put(formValues.customFields, name, value)]
    ELSE [formValues EXCEPT !.top = Put(formValues.top, name, value)]

\* a handler that leaves the state/province values as they were
ClearDependentFieldsNever(formValues, name) == formValues

\* lines 282-285: a country change clears the state/province values
ClearDependentFields(formValues, name) ==
    IF name = "countryCode"
    THEN [formValues EXCEPT
            !.top = Put(Put(formValues.top, "stateOrProvince", Str("")),
                        "stateOrProvinceCode", Str(""))]
    ELSE formValues

\* a completion that clears the flag only after a success
DebouncedSettledNoFinally(st, succeeded, includeShippingOptions) ==
    IF succeeded
    THEN [st EXCEPT !.hasRequestedShippingOptions = IF includeShippingOptions THEN TRUE ELSE @,
                    !.isUpdatingShippingData = FALSE]
    ELSE st

\* a completion that marks shipping options as requested after a failure too
DebouncedSettledMarksOnFailure(st, succeeded, includeShippingOptions) ==
    [st EXCEPT !.hasRequestedShippingOptions = IF includeShippingOptions THEN TRUE ELSE @,
               !.isUpdatingShippingData = FALSE]

\* a completion that forgets the request for shipping options after a failure
DebouncedSettledForgetsOnFailure(st, succeeded, includeShippingOptions) ==
    [st EXCEPT !.hasRequestedShippingOptions =
                   IF succeeded THEN (IF includeShippingOptions THEN TRUE ELSE @) ELSE FALSE,
               !.isUpdatingShippingData = FALSE]

\* lines 129-134: this.state after the debounced call settled
DebouncedSettled(st, succeeded, includeShippingOptions) ==
    [st EXCEPT !.hasRequestedShippingOptions =
                   IF succeeded /\ includeShippingOptions THEN TRUE ELSE @,
               !.isUpdatingShippingData = FALSE]

\* a handler without its finally block
SelectionSettledKeepsFlag(st) == st

\* lines 366-368, 411-413: this.state after a selection settled
SelectionSettled(st) == [st EXCEPT !.isResettingAddress = FALSE]

\* a remote call in flight; `seq` orders the selections in flight by their
\* requests, `stale` tells that the result of a selection requested later
\* has been applied already, and `values` are the form values besides
\* shippingAddress that the handler read from this.props when it started
Call(kind, address, includeShippingOptions, history, seq) ==
    [kind |-> kind, address |-> address, includeShippingOptions |-> includeShippingOptions,
     window |-> history, seq |-> seq, stale |-> FALSE, values |-> PropsOtherValues]

Selections(calls) == { call \in BagToSet(calls) : call.kind \in {"select", "useNew"} }

NextSeq(calls) ==
    IF Selections(calls) = {} THEN 1
    ELSE 1 + (CHOOSE n \in { call.seq : call \in Selections(calls) } :
                 \A call \in Selections(calls) : call.seq <= n)

\* the calls in flight are a bag: they settle in any order
Started(calls, call) == calls (+) SetToBag({call})
Settled(calls, call) == calls (-) SetToBag({call})

\* the calls in flight once the result of the selection `seq` is applied:
\* the selections requested before it are stale
Superseded(calls, seq) ==
    LET older == { call \in Selections(calls) : call.seq < seq }
        kept == BagToSet(calls) \ older
    IN [call \in kept \cup { [o EXCEPT !.stale = TRUE] : o \in older } |->
           IF call \in kept THEN calls[call] ELSE 1]

SingleInit ==
    /\ MapIdle
    /\ MultiIdle
    /\ SchemaIdle
    /\ \E address \in {NoAddress, HomeUS, OfficeCA}, method \in MethodPool :
          singleProps = [shippingAddress |-> address, isLoading |-> FALSE,
                         consignments |-> <<TRUE>>, methodId |-> method,
                         values |-> mapPropsToValues(address),
                         isValid |-> isInitialValid(address)]
    /\ singleState = [isResettingAddress |-> FALSE, isUpdatingShippingData |-> FALSE,
                      hasRequestedShippingOptions |-> FALSE]
    /\ debounced = DebounceIdle
    /\ inFlight = EmptyBag
    /\ pendingFieldChanges = <<>>
    /\ unhandledErrors = 0
    /\ nOps = 0
    /\ window = WindowClosed
    /\ owed = 0
    /\ lastTick = "none"
    /\ lastSettled = NoSettle
    /\ otherValues = PropsOtherValues

\* the parent renders the form with another isLoading or other consignments
ParentRenders ==
    /\ nOps < MaxOps
    /\ \E loading \in BOOLEAN, cs \in ConsignmentPool :
          /\ <<loading, cs>> # <<singleProps.isLoading, singleProps.consignments>>
          /\ singleProps' = [singleProps EXCEPT !.isLoading = loading, !.consignments = cs]
    /\ nOps' = nOps + 1
    /\ UNCHANGED <<mapVars, multiVars, schemaVars, otherValues, singleState, debounced, inFlight, pendingFieldChanges,
                   unhandledErrors, window, owed,
                   lastTick, lastSettled>>

\* the addresses a selection can end with, and the form values of each
SelectableAddresses == SavedAddresses \cup {NoAddress}

ResetFormValuesOf ==
    [address \in SelectableAddresses |-> ResetAddressFormValues(address)]

\* Formik's validation of those form values under the schema of a method
ResetIsValidOf ==
    [method \in MethodPool, address \in SelectableAddresses |->
        ValidateForm(method, ResetFormValuesOf[address])]

\* the form values of an address after a load
LoadedFormValues(address) ==
    IF address \in SelectableAddresses THEN ResetFormValuesOf[address]
    ELSE ResetAddressFormValues(address)

\* the parent renders the form with another shippingFormRenderTimestamp:
\* componentDidUpdate sets the form values of the synced address again
\* (lines 140-183)
componentDidUpdate ==
    /\ nOps < MaxOps
    /\ LET formValues == LoadedFormValues(singleProps.shippingAddress)
       IN singleProps' = [singleProps EXCEPT
                            !.values = formValues,
                            !.isValid = ValidateForm(singleProps.methodId, formValues)]
    /\ otherValues' = PropsOtherValues
    /\ nOps' = nOps + 1
    /\ UNCHANGED <<mapVars, multiVars, schemaVars, singleState, debounced, inFlight,
                   pendingFieldChanges, unhandledErrors, window, owed, lastTick,
                   lastSettled>>

\* the user edits a field: the value is stored, Formik validates, and
\* handleFieldChange runs up to its timeout (lines 279-288)
ChangeField ==
    /\ nOps < MaxOps
    /\ Len(pendingFieldChanges) < MaxPendingTicks
    /\ \E edit \in FieldEdits :
          /\ edit[1] \in FieldNames(getFields(FormCountry(singleProps.values)))
          /\ FormValue(singleProps.values, edit[1]) # Str(edit[2])
          /\ LET formValues == ClearDependentFields(
                                   SetFormValue(singleProps.values, edit[1], Str(edit[2])),
                                   edit[1])
             IN singleProps' = [singleProps EXCEPT
                                  !.values = formValues,
                                  !.isValid = ValidateForm(singleProps.methodId, formValues)]
          /\ pendingFieldChanges' = Append(pendingFieldChanges, edit[1])
    /\ nOps' = nOps + 1
    /\ UNCHANGED <<mapVars, multiVars, schemaVars, otherValues, singleState, debounced, inFlight, unhandledErrors, window, owed,
                   lastTick, lastSettled>>

\* a handler that goes on with an invalid form
ReturnsWhenInvalidNever(isValid) == FALSE

\* lines 294-298: the handler returns when the form is invalid
ReturnsWhenInvalid(isValid) == ~isValid

\* the rest of handleFieldChange (lines 290-300) and updateAddressWithFormData
\* (lines 303-324), run when the timeout of line 288 expires
AfterValidation ==
    /\ pendingFieldChanges # <<>>
    /\ pendingFieldChanges' = Tail(pendingFieldChanges)
    /\ LET name == Head(pendingFieldChanges)
           isShippingField == name \in SHIPPING_ADDRESS_FIELDS
           payload == UpdatePayload(singleProps.values, singleProps.shippingAddress,
                          isShippingField \/ ~singleState.hasRequestedShippingOptions)
           seen == IF window.edits < 2 THEN window.edits + 1 ELSE 2
       IN IF ReturnsWhenInvalid(singleProps.isValid)
          THEN /\ lastTick' = "invalid"
               /\ UNCHANGED <<singleState, debounced, window, owed>>
          ELSE IF ShouldSkipUpdate(payload.address, singleProps.shippingAddress)
          THEN /\ window' = IF debounced.armed
                            THEN [window EXCEPT !.edits = seen, !.holdsComputed = FALSE]
                            ELSE window
               /\ lastTick' = "skipped"
               /\ UNCHANGED <<singleState, debounced, owed>>
          ELSE /\ singleState' = [singleState EXCEPT !.isUpdatingShippingData = TRUE]
               /\ debounced' = DebounceCall(debounced, payload.address,
                                            payload.includeShippingOptions)
               /\ window' = [edits |-> IF debounced.armed THEN seen ELSE 1,
                             holdsComputed |->
                                 /\ debounced'.address = payload.address
                                 /\ debounced'.includeShippingOptions
                                        = payload.includeShippingOptions,
                             holdsScheduled |->
                                 /\ debounced'.address = payload.address
                                 /\ debounced'.includeShippingOptions
                                        = payload.includeShippingOptions]
               /\ owed' = IF debounced.armed THEN owed ELSE owed + 1
               /\ lastTick' = "scheduled"
    /\ UNCHANGED <<mapVars, multiVars, schemaVars, otherValues, singleProps, inFlight, unhandledErrors, nOps,
                   lastSettled>>

\* the debounce timer expires: the debounced function starts updateAddress
\* with the last arguments (lines 119-127)
TimerFires ==
    /\ debounced.armed
    /\ BagCardinality(inFlight) < MaxInFlight
    /\ inFlight' = Started(inFlight, Call("debounced", debounced.address,
                                          debounced.includeShippingOptions, window, 0))
    /\ debounced' = DebounceIdle
    /\ window' = WindowClosed
    /\ owed' = owed - 1
    /\ UNCHANGED <<mapVars, multiVars, schemaVars, otherValues, singleProps, singleState, pendingFieldChanges, unhandledErrors,
                   nOps,
                   lastTick, lastSettled>>

\* a form that takes its values from the props again when they change
UpdateAppliedReinitialized(props, address) ==
    [props EXCEPT !.shippingAddress = address,
                  !.values = mapPropsToValues(address),
                  !.isValid = ValidateForm(props.methodId, mapPropsToValues(address))]

\* this.props after a debounced update succeeded: the checkout state holds
\* the address sent, and with enableReinitialize false (line 470) the form
\* keeps its values
UpdateApplied(props, address) == [props EXCEPT !.shippingAddress = address]

\* updateAddress of a debounced call resolves: the checkout state holds the
\* address sent (lines 129-134)
UpdateResolves ==
    /\ \E call \in BagToSet(inFlight) :
          /\ call.kind = "debounced"
          /\ inFlight' = Settled(inFlight, call)
          /\ lastSettled' = "resolved"
          /\ singleState' = DebouncedSettled(singleState, TRUE, call.includeShippingOptions)
          /\ singleProps' = UpdateApplied(singleProps, call.address)
    /\ UNCHANGED <<mapVars, multiVars, schemaVars, otherValues, debounced, pendingFieldChanges, unhandledErrors, nOps, window,
                   owed,
                   lastTick>>

\* updateAddress of a debounced call rejects (lines 132-134)
UpdateRejects ==
    /\ \E call \in BagToSet(inFlight) :
          /\ call.kind = "debounced"
          /\ inFlight' = Settled(inFlight, call)
          /\ lastSettled' = "rejected"
          /\ singleState' = DebouncedSettled(singleState, FALSE, call.includeShippingOptions)
    /\ UNCHANGED <<mapVars, multiVars, schemaVars, otherValues, singleProps, debounced, pendingFieldChanges, unhandledErrors,
                   nOps, window, owed,
                   lastTick>>

\* handleAddressSelect up to its await (lines 326-332)
handleAddressSelect ==
    /\ nOps < MaxOps
    /\ BagCardinality(inFlight) < MaxInFlight
    /\ \E address \in SavedAddresses :
          inFlight' = Started(inFlight,
                              [Call("select", address, FALSE, WindowClosed, NextSeq(inFlight))
                                  EXCEPT !.values = otherValues])
    /\ singleState' = [singleState EXCEPT !.isResettingAddress = TRUE]
    /\ nOps' = nOps + 1
    /\ UNCHANGED <<mapVars, multiVars, schemaVars, otherValues, singleProps, debounced, pendingFieldChanges, unhandledErrors,
                   window, owed,
                   lastTick, lastSettled>>

\* onUseNewAddress up to its await (lines 371-377)
onUseNewAddress ==
    /\ nOps < MaxOps
    /\ BagCardinality(inFlight) < MaxInFlight
    /\ inFlight' = Started(inFlight,
                           [Call("useNew", NoAddress, FALSE, WindowClosed, NextSeq(inFlight))
                               EXCEPT !.values = otherValues])
    /\ singleState' = [singleState EXCEPT !.isResettingAddress = TRUE]
    /\ nOps' = nOps + 1
    /\ UNCHANGED <<mapVars, multiVars, schemaVars, otherValues, singleProps, debounced, pendingFieldChanges, unhandledErrors,
                   window, owed,
                   lastTick, lastSettled>>

\* a handler that drops the result of a resolved call instead of merging it
SelectionAppliedKeepsValues(props, address) ==
    [props EXCEPT !.shippingAddress = address]

\* this.props after a selection succeeded: the checkout state holds the
\* address, and setValues merged its form values (lines 334-363, 379-408)
SelectionApplied(props, address) ==
    [props EXCEPT !.shippingAddress = address,
                  !.values = ResetFormValuesOf[address],
                  !.isValid = ResetIsValidOf[props.methodId, address]]

\* updateAddress of a selection resolves (lines 332-363, 366-368)
SelectResolves ==
    /\ \E call \in BagToSet(inFlight) :
          /\ call.kind = "select"
          /\ inFlight' = Superseded(Settled(inFlight, call), call.seq)
          /\ lastSettled' = IF call.stale THEN "stale" ELSE "applied"
          /\ singleState' = SelectionSettled(singleState)
          /\ singleProps' = SelectionApplied(singleProps, call.address)
          /\ otherValues' = call.values
    /\ UNCHANGED <<mapVars, multiVars, schemaVars, debounced, pendingFieldChanges, unhandledErrors, nOps, window,
                   owed,
                   lastTick>>

\* deleteConsignments resolves with the remaining address or undefined
\* (lines 377-408, 411-413)
UseNewResolves ==
    /\ \E call \in BagToSet(inFlight), address \in {NoAddress, HomeUS} :
          /\ call.kind = "useNew"
          /\ inFlight' = Superseded(Settled(inFlight, call), call.seq)
          /\ lastSettled' = IF call.stale THEN "stale" ELSE "applied"
          /\ singleState' = SelectionSettled(singleState)
          /\ singleProps' = SelectionApplied(singleProps, address)
          /\ otherValues' = call.values
    /\ UNCHANGED <<mapVars, multiVars, schemaVars, debounced, pendingFieldChanges, unhandledErrors, nOps, window,
                   owed,
                   lastTick>>

\* the remote call of a selection rejects (lines 364-368, 409-413)
SelectionRejects ==
    /\ \E call \in BagToSet(inFlight) :
          /\ call.kind \in {"select", "useNew"}
          /\ inFlight' = Settled(inFlight, call)
    /\ unhandledErrors' = unhandledErrors + 1
    /\ lastSettled' = "failed"
    /\ singleState' = SelectionSettled(singleState)
    /\ UNCHANGED <<mapVars, multiVars, schemaVars, otherValues, singleProps, debounced, pendingFieldChanges, nOps, window, owed,
                   lastTick>>

SingleNext ==
    \/ ParentRenders
    \/ componentDidUpdate
    \/ ChangeField
    \/ AfterValidation
    \/ TimerFires
    \/ UpdateResolves
    \/ UpdateRejects
    \/ handleAddressSelect
    \/ onUseNewAddress
    \/ SelectResolves
    \/ UseNewResolves
    \/ SelectionRejects

SingleSpec == SingleInit /\ [][SingleNext]_vars

\* -------------------- SingleShippingForm: the values besides shippingAddress
\* the user edits the order comment or toggles billingSameAsShipping: plain
\* Formik fields, without handleFieldChange
ChangeOtherField ==
    /\ nOps < MaxOps
    /\ \/ otherValues' = [otherValues EXCEPT !.orderComment = IF @ = "" THEN "note" ELSE ""]
       \/ otherValues' = [otherValues EXCEPT !.billingSameAsShipping = ~@]
    /\ nOps' = nOps + 1
    /\ UNCHANGED <<mapVars, multiVars, schemaVars, singleProps, singleState, debounced,
                   inFlight, pendingFieldChanges, unhandledErrors, window, owed, lastTick,
                   lastSettled>>

\* the operations that read or write those values
OtherValuesNext ==
    \/ ChangeOtherField
    \/ componentDidUpdate
    \/ handleAddressSelect
    \/ onUseNewAddress
    \/ SelectResolves
    \/ UseNewResolves
    \/ SelectionRejects

OtherValuesSpec == SingleInit /\ [][OtherValuesNext]_vars
\* every remote call settles and an armed debounce timer expires; each of
\* these steps changes the calls in flight
FairSingleSpec ==
    /\ SingleSpec
    /\ WF_inFlight(TimerFires)
    /\ WF_inFlight(UpdateResolves \/ UpdateRejects)
    /\ WF_inFlight(SelectResolves \/ UseNewResolves \/ SelectionRejects)

DebouncedInFlight == { call \in BagToSet(inFlight) : call.kind = "debounced" }

\* the number of debounced updateAddress calls started and not yet settled
OutstandingUpdates ==
    BagCardinality([call \in DebouncedInFlight |-> inFlight[call]])

\* every debounce window opened has fired once, except the one still open
OneCallPerWindow == owed = IF debounced.armed THEN 1 ELSE 0

\* C2: two edits inside one debounce window start exactly one updateAddress
\* call, and it carries the address and the include-shipping-options flag
\* computed at the later edit.
C2_SecondEditPayloadFires ==
    /\ OneCallPerWindow
    /\ \A call \in DebouncedInFlight :
          call.window.edits >= 2 => call.window.holdsComputed

\* C3: at most one debounced updateAddress call is started and not yet settled.
C3_AtMostOneOutstandingUpdate == OutstandingUpdates <= 1

\* C4: a handleFieldChange that computes an address equal to the synced
\* shipping address schedules no updateAddress call, starts none, and leaves
\* isUpdatingShippingData (and the rest of this.state) as it was.
C4_EqualAddressSchedulesNothing ==
    [][ ( /\ pendingFieldChanges # <<>>
          /\ pendingFieldChanges' = Tail(pendingFieldChanges)
          /\ singleProps.isValid
          /\ isEqualAddress(mapAddressFromFormValues(singleProps.values),
                            singleProps.shippingAddress) )
        => ( /\ debounced' = debounced
             /\ inFlight' = inFlight
             /\ singleState' = singleState ) ]_vars

\* a valid edit whose address equalled the synced address has been handled
\* while nothing was pending
C4_Witness ==
    /\ lastTick = "skipped"
    /\ pendingFieldChanges = <<>>
    /\ ~debounced.armed
    /\ ~singleState.isUpdatingShippingData
    /\ inFlight = EmptyBag

\* C5: submission is disabled while the form is loading, while an address
\* update is pending (timer armed or call in flight) and while some
\* consignment has no selected shipping option.
C5_SubmitDisabledWhilePending ==
    ( \/ singleProps.isLoading
      \/ debounced.armed
      \/ OutstandingUpdates > 0
      \/ \E i \in 1..Len(singleProps.consignments) : ~singleProps.consignments[i] )
    => shouldDisableSubmit(singleProps.isLoading, singleState.isUpdatingShippingData,
                           singleProps.consignments)

\* C9: isResettingAddress and isUpdatingShippingData, once true, become false
\* again, whether the remote call succeeds or fails: neither flag stays true
\* forever (F ~> ~F is []<>~F).
C9_FlagsAreCleared ==
    /\ []<>~singleState.isResettingAddress
    /\ []<>~singleState.isUpdatingShippingData

\* a selection has failed, and both flags are clear with nothing pending
C9_Witness ==
    /\ unhandledErrors > 0
    /\ lastTick = "scheduled"
    /\ ~singleState.isResettingAddress
    /\ ~singleState.isUpdatingShippingData
    /\ ~debounced.armed
    /\ inFlight = EmptyBag


\* C11: the custom-field entries of the form are exactly the custom fields
\* getFields returns for the form's current country.
C11_CustomFieldsMatchCountry ==
    DOMAIN singleProps.values.customFields
        = CustomNames(getFields(FormCountry(singleProps.values)))

\* handleFieldChange runs up to its timeout for an edit of the country
CountryEditStep == pendingFieldChanges' = Append(pendingFieldChanges, "countryCode")

\* the deferred part of handleFieldChange runs for an edit of the country
CountryDeferredStep ==
    /\ pendingFieldChanges # <<>>
    /\ Head(pendingFieldChanges) = "countryCode"
    /\ pendingFieldChanges' = Tail(pendingFieldChanges)

StateValuesCleared(top) ==
    /\ "stateOrProvince" \in DOMAIN top /\ top["stateOrProvince"] = Str("")
    /\ "stateOrProvinceCode" \in DOMAIN top /\ top["stateOrProvinceCode"] = Str("")

\* C13 as stated: a country edit clears the state/province values before any
\* remote call, and its deferred step schedules one debounced update that
\* requests shipping options.
C13_CountryEditAlwaysUpdates ==
    /\ [][ CountryEditStep =>
             /\ StateValuesCleared(singleProps'.values.top)
             /\ inFlight' = inFlight /\ debounced' = debounced ]_vars
    /\ [][ CountryDeferredStep =>
             /\ debounced'.armed
             /\ debounced'.includeShippingOptions ]_vars

\* C13: a country edit clears the state/province values in the step of the
\* edit, before any remote call; its deferred step schedules one debounced
\* update, for the address of the form and with shipping options, when the
\* form is valid and that address differs from the synced one, and schedules
\* nothing otherwise.
C13_CountryEditClearsThenUpdates ==
    /\ [][ CountryEditStep =>
             /\ StateValuesCleared(singleProps'.values.top)
             /\ inFlight' = inFlight /\ debounced' = debounced ]_vars
    /\ [][ CountryDeferredStep =>
             /\ inFlight' = inFlight
             /\ IF /\ singleProps.isValid
                   /\ ~isEqualAddress(mapAddressFromFormValues(singleProps.values),
                                      singleProps.shippingAddress)
                THEN /\ debounced'.armed
                     /\ debounced'.includeShippingOptions
                     /\ debounced'.address = mapAddressFromFormValues(singleProps.values)
                ELSE debounced' = debounced ]_vars

\* the country of a saved US address with a state was changed, and the update
\* scheduled for it holds the cleared state values and asks for shipping options
C13_Witness ==
    /\ lastTick = "scheduled"
    /\ singleProps.shippingAddress = HomeUS
    /\ FormCountry(singleProps.values) = Str("CA")
    /\ debounced.armed
    /\ debounced.includeShippingOptions
    /\ StateValuesCleared(debounced.address.top)

\* the deferred part of handleFieldChange runs
DeferredStep ==
    /\ pendingFieldChanges # <<>>
    /\ pendingFieldChanges' = Tail(pendingFieldChanges)

\* C16: when the form is invalid as the deferred step of an edit runs, the
\* edit schedules and starts no remote call, and isUpdatingShippingData and
\* hasRequestedShippingOptions stay as they were.
C16_InvalidFormTakesNoAction ==
    [][ (DeferredStep /\ ~singleProps.isValid) =>
          /\ debounced' = debounced
          /\ inFlight' = inFlight
          /\ singleState' = singleState
          /\ singleProps' = singleProps ]_vars

\* an edit left a form that holds an address other than the synced one
\* invalid, and its deferred step has run
C16_Witness ==
    /\ lastTick = "invalid"
    /\ ~singleProps.isValid
    /\ singleProps.shippingAddress.defined
    /\ ~isEqualAddress(mapAddressFromFormValues(singleProps.values),
                       singleProps.shippingAddress)
    /\ pendingFieldChanges = <<>>
    /\ ~debounced.armed
    /\ inFlight = EmptyBag

\* the deferred part of handleFieldChange schedules an update
SchedulingStep == DeferredStep /\ lastTick' = "scheduled"

\* the timer starts the debounced call
FiringStep == debounced.armed /\ ~debounced'.armed

FiredCarriesScheduled ==
    [][ FiringStep =>
          inFlight' = Started(inFlight,
                              Call("debounced", debounced.address,
                                   debounced.includeShippingOptions, window, 0)) ]_vars

\* C15 as stated: the update scheduled at an edit requests shipping options
\* exactly when the edited field is a shipping-address field, or shipping
\* options were never requested with success, or the custom fields of the form
\* are not those of a synced address (there being none included).
C15_OptionsRequestedIffAnyReason ==
    /\ FiredCarriesScheduled
    /\ [][ SchedulingStep =>
             debounced'.includeShippingOptions =
                 ( \/ Head(pendingFieldChanges) \in SHIPPING_ADDRESS_FIELDS
                   \/ ~singleState.hasRequestedShippingOptions
                   \/ ~singleProps.shippingAddress.defined
                   \/ mapAddressFromFormValues(singleProps.values).customFields
                          # singleProps.shippingAddress.customFields ) ]_vars

\* C15: the update scheduled at an edit, which the timer fires as scheduled,
\* requests shipping options exactly when the edited field is a
\* shipping-address field, or shipping options were never requested with
\* success, or there is a synced address and the custom fields of the form
\* differ from its custom fields.
C15_OptionsRequestedIffReasonWithSynced ==
    /\ FiredCarriesScheduled
    /\ [][ SchedulingStep =>
             debounced'.includeShippingOptions =
                 ( \/ Head(pendingFieldChanges) \in SHIPPING_ADDRESS_FIELDS
                   \/ ~singleState.hasRequestedShippingOptions
                   \/ /\ singleProps.shippingAddress.defined
                      /\ mapAddressFromFormValues(singleProps.values).customFields
                             # singleProps.shippingAddress.customFields ) ]_vars

\* after shipping options were requested with success, an update is scheduled
\* with shipping options for a form that differs from the synced address in
\* its custom fields only
C15_Witness ==
    /\ lastTick = "scheduled"
    /\ singleState.hasRequestedShippingOptions
    /\ singleProps.shippingAddress.defined
    /\ debounced.armed
    /\ debounced.includeShippingOptions
    /\ debounced.address = mapAddressFromFormValues(singleProps.values)
    /\ AddressContent(debounced.address).top = AddressContent(singleProps.shippingAddress).top
    /\ debounced.address.customFields # singleProps.shippingAddress.customFields

\* the debounced call `call` settles
UpdateSettledStep(call) ==
    /\ call.kind = "debounced"
    /\ inFlight[call] > 0
    /\ inFlight' = Settled(inFlight, call)

\* C17: when a debounced updateAddress call completes, isUpdatingShippingData
\* is false after a success and after a failure; hasRequestedShippingOptions
\* is true when the call succeeded and had requested shipping options, and is
\* as it was otherwise.
C17_CompletionClearsFlag ==
    [][ \A call \in BagToSet(inFlight) :
          UpdateSettledStep(call) =>
             /\ lastSettled' \in {"resolved", "rejected"}
             /\ ~singleState'.isUpdatingShippingData
             /\ singleState'.hasRequestedShippingOptions =
                   IF lastSettled' = "resolved" /\ call.includeShippingOptions
                   THEN TRUE
                   ELSE singleState.hasRequestedShippingOptions
             /\ singleState'.isResettingAddress = singleState.isResettingAddress ]_vars

\* the only update, which had requested shipping options, has failed: the
\* flag is clear and hasRequestedShippingOptions is still false
C17_Witness ==
    /\ lastSettled = "rejected"
    /\ lastTick = "scheduled"
    /\ ~singleState.hasRequestedShippingOptions
    /\ ~singleState.isUpdatingShippingData
    /\ ~debounced.armed
    /\ inFlight = EmptyBag

\* every custom field of the country of the form holds its empty default
CustomFieldsAreEmpty(formValues) ==
    LET fields == getFields(FormCountry(formValues))
    IN \A i \in 1..Len(fields) :
          fields[i].custom =>
             /\ fields[i].name \in DOMAIN formValues.customFields
             /\ formValues.customFields[fields[i].name] =
                   IF fields[i].fieldType = "checkbox" THEN Arr("") ELSE Str("")

\* the form as mounted: nothing has been done to it yet
Mounted == nOps = 0 /\ lastSettled = NoSettle

\* componentDidUpdate runs for another render timestamp
TimestampStep ==
    /\ nOps' = nOps + 1
    /\ inFlight' = inFlight
    /\ pendingFieldChanges' = pendingFieldChanges
    /\ singleProps'.isLoading = singleProps.isLoading
    /\ singleProps'.consignments = singleProps.consignments

\* the result of a selection or of use-new-address is merged into the form
SelectionAppliedStep ==
    /\ lastSettled' \in {"applied", "stale"}
    /\ BagCardinality(inFlight') < BagCardinality(inFlight)

\* the form holds the address loaded or selected, as the mapper maps it, with
\* every custom field of its country at its empty default
LoadedWithEmptyCustomFields(props) ==
    /\ props.values.top
          = mapAddressToFormValues(getFields(AddressGet(props.shippingAddress, "countryCode")),
                                   props.shippingAddress).top
    /\ CustomFieldsAreEmpty(props.values)

\* C18: after the initial mount, a render-timestamp change, a selection from
\* the saved addresses and use-new-address, every custom field of the active
\* country holds its empty default ([] for a checkbox, '' otherwise) in the
\* form, whatever the mapper computed for it.
C18_LoadsResetCustomFields ==
    /\ [](Mounted => LoadedWithEmptyCustomFields(singleProps))
    /\ [][TimestampStep => LoadedWithEmptyCustomFields(singleProps')]_vars
    /\ [][SelectionAppliedStep => LoadedWithEmptyCustomFields(singleProps')]_vars

\* the step in which the remote call of the selection `call` resolves after
\* the result of a selection requested later has been applied
StaleResolvedStep(call) ==
    /\ call.kind \in {"select", "useNew"}
    /\ call.stale
    /\ lastSettled' = "stale"
    /\ inFlight' = Settled(inFlight, call)

\* the form values a resolved selection merges: those of the address it was
\* requested for, or of the address deleteConsignments resolved with
MergedBy(call) ==
    IF call.kind = "select" THEN { ResetFormValuesOf[call.address] }
    ELSE { ResetFormValuesOf[address] : address \in {NoAddress, HomeUS} }

\* C19: nothing cancels a selection in flight or checks its result for
\* staleness: when a selection resolves after the result of a later one has
\* been applied, the step still merges the form values of the earlier
\* request's address and makes it the shipping address, whatever the form
\* showed before
C19_StaleResultIsMerged ==
    [][\A call \in BagToSet(inFlight) :
          StaleResolvedStep(call) =>
              /\ singleProps'.values \in MergedBy(call)
              /\ singleProps'.values = ResetFormValuesOf[singleProps'.shippingAddress]
              /\ ~singleState'.isResettingAddress]_vars

\* two selections overlapped, the later one was applied first, and the
\* earlier one then put the saved CA address into the form
C19_Witness ==
    /\ lastSettled = "stale"
    /\ nOps = 2
    /\ inFlight = EmptyBag
    /\ singleProps.shippingAddress = OfficeCA
    /\ singleProps.values = ResetFormValuesOf[OfficeCA]

\* C24: isResettingAddress is true while the remote call of an address
\* selection or of use-new-address is in flight, also when several overlap
C24_ResettingWhileSelectionInFlight ==
    Selections(inFlight) # {} => singleState.isResettingAddress

\* the step in which the remote call of a selection or of use-new-address
\* fails
SelectionFailedStep ==
    /\ lastSettled' = "failed"
    /\ BagCardinality(inFlight') < BagCardinality(inFlight)

\* C26: when the remote call of an address selection or of use-new-address
\* fails, the form values stay as they were, onUnhandledError is called
\* exactly once, and isResettingAddress is false afterwards
C26_FailedSelectionLeavesForm ==
    [][SelectionFailedStep =>
          /\ singleProps'.values = singleProps.values
          /\ singleProps' = singleProps
          /\ unhandledErrors' = unhandledErrors + 1
          /\ ~singleState'.isResettingAddress]_vars

\* a selection failed while the form held an edit of the user
C26_Witness ==
    /\ lastSettled = "failed"
    /\ unhandledErrors = 1
    /\ ~singleState.isResettingAddress
    /\ singleProps.values # mapPropsToValues(singleProps.shippingAddress)
    /\ inFlight = EmptyBag

\* C27: hasRequestedShippingOptions starts false, and no step of the form
\* (edit, settled update, selection, use-new-address, render) sets it back
\* to false once it is true
C27_RequestedFlagIsMonotonic ==
    /\ ~singleState.hasRequestedShippingOptions
    /\ [][singleState.hasRequestedShippingOptions
             => singleState'.hasRequestedShippingOptions]_vars

\* the flag is set and a later update has failed
C27_Witness ==
    /\ singleState.hasRequestedShippingOptions
    /\ lastSettled = "rejected"

\* the system-field values the mapper computes for an address
MappedTop(address) ==
    mapAddressToFormValues(getFields(AddressGet(address, "countryCode")), address).top

\* a debounced update resolves and the shippingAddress prop becomes the
\* address sent
UpdateResolvedStep ==
    /\ lastSettled' = "resolved"
    /\ BagCardinality(inFlight') < BagCardinality(inFlight)

\* the user edits a field of the form
FieldEditStep == Len(pendingFieldChanges') > Len(pendingFieldChanges)

\* C21 as stated: after any change of the shippingAddress prop the form
\* values are the mapping of the new address (compared on the system fields,
\* which the mapper takes from the address).
C21_ValuesFollowAddressProp ==
    [][singleProps'.shippingAddress # singleProps.shippingAddress =>
          singleProps'.values.top = MappedTop(singleProps'.shippingAddress)]_vars

\* C21: a change of the shippingAddress prop does not by itself recompute the
\* form values: a debounced update that resolves leaves them as they are.
\* They are replaced by values computed from the address and the fields of
\* its country only when the render timestamp changes or a selection
\* resolves, and change otherwise only by an edit of the user.
C21_ValuesRecomputedOnLoadOnly ==
    /\ [][UpdateResolvedStep => singleProps'.values = singleProps.values]_vars
    /\ [][(TimestampStep \/ SelectionAppliedStep) =>
             singleProps'.values.top = MappedTop(singleProps'.shippingAddress)]_vars
    /\ [][singleProps'.values # singleProps.values =>
             FieldEditStep \/ TimestampStep \/ SelectionAppliedStep]_vars

\* an update resolved while the form already held a later edit: the prop has
\* the address sent, the form another city
C21_Witness ==
    /\ lastSettled = "resolved"
    /\ singleProps.shippingAddress.defined
    /\ singleProps.values.top # MappedTop(singleProps.shippingAddress)
    /\ singleProps.values.top["city"] # AddressGet(singleProps.shippingAddress, "city")

\* C25: the result of an address selection or of use-new-address replaces
\* only the shippingAddress part of the form values: billingSameAsShipping
\* and orderComment are after the step what they were before it, also when
\* the user edited them while the remote call was in flight.
C25_SelectionKeepsOtherValues ==
    [][SelectionAppliedStep => otherValues' = otherValues]_vars
\* -------------------------------------------- MultiShippingForm: inputs
\* a US address without its required custom field, and one without its city
NoGiftUS == Address(AddressTop("US", "Paris", "Texas", "TX"), <<>>)

NoCityUS == Address(AddressTop("US", "", "Texas", "TX"),
                    << CustomValue("field_25", Str("gift")) >>)

MultiAddresses == { HomeUS, OfficeCA, NoGiftUS, NoCityUS }

\* what the add-address modal can submit: a complete form and one whose
\* required custom field is empty
ModalForms ==
    { [top |-> AddressTop("US", "Lyon", "Texas", "TX"), hasCustomFields |-> TRUE,
       customFields |-> [n \in {"field_25"} |-> Str("gift")]],
      [top |-> AddressTop("US", "Lyon", "Texas", "TX"), hasCustomFields |-> TRUE,
       customFields |-> [n \in {"field_25"} |-> Str("")]] }

CartA == << LineItem("42", 1), LineItem("7", 2) >>
CartB == << LineItem("42", 1) >>
CartC == << LineItem("42", 1), LineItem("9", 2) >>
Carts == { CartA, CartB, CartC }

\* what a promise can reject with: an Error instance, or any other value
Rejections == { "Error", "nonError" }

\* the consignments that remain for a cart
RowsOfCart(rows, cart) ==
    SelectSeq(rows, LAMBDA r : r.quantity <= CartQuantity(cart, r.itemId))

\* a handler suspended at an await: in handleSelectAddress on behalf of
\* itself or of handleSaveAddress (stage "assign"), or in handleSaveAddress
\* at createCustomerAddress (stage "create")
Op(handler, stage, address, item, assigned) ==
    [handler |-> handler, stage |-> stage, address |-> address,
     itemId |-> item.itemId, key |-> item.key, assigned |-> assigned]

Step(event, address, reason, assigned) ==
    [event |-> event, address |-> address, reason |-> reason, assigned |-> assigned]

\* a handler that drops the returned state
syncItemsSkipped(st, key, address, data) == st

\* lines 251-272: this.state after syncItems
syncItems(st, key, address, data) ==
    [st EXCEPT !.items = updateShippableItems(st.items, FindIndex(st.items, key), address,
                                              data.cart, data.consignments)]

\* the checkout data of the props
CheckoutData(props) == [cart |-> props.cart, consignments |-> props.consignments]

MultiInit ==
    /\ MapIdle
    /\ SingleIdle
    /\ SchemaIdle
    /\ \E validate \in BOOLEAN :
          multiProps = [cart |-> CartA, consignments |-> <<>>,
                        validateAddressFields |-> validate]
    /\ multiState = getDerivedStateFromProps(multiProps,
                        [items |-> <<>>, itemAddingAddress |-> NoItem,
                         createCustomerAddressError |-> NoError])
    /\ multiCalls = EmptyBag
    /\ multiErrors = <<>>
    /\ multiOps = 0
    /\ multiLast = NoStep

\* the cart changes elsewhere and the parent renders the form with it
CartChanges ==
    /\ multiOps < MaxOps
    /\ \E cart \in Carts \ {multiProps.cart} :
          multiProps' = [multiProps EXCEPT
                            !.cart = cart,
                            !.consignments = RowsOfCart(multiProps.consignments, cart)]
    /\ multiState' = getDerivedStateFromProps(multiProps', multiState)
    /\ multiOps' = multiOps + 1
    /\ multiLast' = Step("render", NoAddress, "", FALSE)
    /\ UNCHANGED <<mapVars, singleVars, schemaVars, multiCalls, multiErrors>>

\* lines 197-207
handleUseNewAddress ==
    /\ multiOps < MaxOps
    /\ \E i \in 1..Len(multiState.items) :
          multiState' = getDerivedStateFromProps(multiProps,
                            [multiState EXCEPT
                                !.itemAddingAddress = [key |-> multiState.items[i].key,
                                                       itemId |-> multiState.items[i].itemId]])
    /\ multiOps' = multiOps + 1
    /\ multiLast' = Step("useNew", NoAddress, "", FALSE)
    /\ UNCHANGED <<mapVars, singleVars, schemaVars, multiProps, multiCalls, multiErrors>>

\* lines 209-213
handleCloseAddAddressForm ==
    /\ multiOps < MaxOps
    /\ multiState.itemAddingAddress # NoItem
    /\ multiState' = getDerivedStateFromProps(multiProps,
                         [multiState EXCEPT !.itemAddingAddress = NoItem])
    /\ multiOps' = multiOps + 1
    /\ multiLast' = Step("close", NoAddress, "", FALSE)
    /\ UNCHANGED <<mapVars, singleVars, schemaVars, multiProps, multiCalls, multiErrors>>

\* lines 164-166
handleCloseErrorModal ==
    /\ multiOps < MaxOps
    /\ multiState.createCustomerAddressError # NoError
    /\ multiState' = getDerivedStateFromProps(multiProps,
                         [multiState EXCEPT !.createCustomerAddressError = NoError])
    /\ multiOps' = multiOps + 1
    /\ multiLast' = Step("closeError", NoAddress, "", FALSE)
    /\ UNCHANGED <<mapVars, singleVars, schemaVars, multiProps, multiCalls, multiErrors>>

\* handleSelectAddress called by an item's address select, up to its return
\* or its await (lines 215-235)
handleSelectAddress ==
    /\ multiOps < MaxOps
    /\ BagCardinality(multiCalls) < MaxInFlight
    /\ \E address \in MultiAddresses, i \in 1..Len(multiState.items) :
          /\ multiLast' = Step("select", address, "", FALSE)
          /\ IF SelectionIsRejected(address, multiProps.validateAddressFields)
             THEN /\ multiErrors' = Append(multiErrors, "AssignItemInvalidAddressError")
                  /\ UNCHANGED multiCalls
             ELSE /\ multiCalls' = Started(multiCalls,
                                       Op("select", "assign", address, multiState.items[i],
                                          FALSE))
                  /\ UNCHANGED multiErrors
    /\ multiOps' = multiOps + 1
    /\ UNCHANGED <<mapVars, singleVars, schemaVars, multiProps, multiState>>

\* handleSaveAddress up to its first await that suspends: the one inside
\* handleSelectAddress, or createCustomerAddress when the selection returned
\* at once (lines 168-185, 215-235)
handleSaveAddress ==
    /\ multiOps < MaxOps
    /\ BagCardinality(multiCalls) < MaxInFlight
    /\ multiState.itemAddingAddress # NoItem
    /\ \E formValues \in ModalForms :
          LET shippingAddress == mapAddressFromFormValues(formValues)
          IN /\ multiLast' = Step("save", shippingAddress, "", FALSE)
             /\ IF SelectionIsRejected(shippingAddress, multiProps.validateAddressFields)
                THEN /\ multiErrors' = Append(multiErrors, "AssignItemInvalidAddressError")
                     /\ multiCalls' = Started(multiCalls,
                                          Op("save", "create", shippingAddress,
                                             multiState.itemAddingAddress, FALSE))
                ELSE /\ multiCalls' = Started(multiCalls,
                                          Op("save", "assign", shippingAddress,
                                             multiState.itemAddingAddress, FALSE))
                     /\ UNCHANGED multiErrors
    /\ multiOps' = multiOps + 1
    /\ UNCHANGED <<mapVars, singleVars, schemaVars, multiProps, multiState>>

\* assignItem resolves: the checkout holds the assignment, syncItems rebuilds
\* the list, and handleSaveAddress goes on to createCustomerAddress
\* (lines 227-237, 184-185)
AssignResolves ==
    /\ \E op \in BagToSet(multiCalls) :
          /\ op.stage = "assign"
          /\ LET data == ItemAssigned(CheckoutData(multiProps), op.address, op.itemId)
             IN /\ multiProps' = [multiProps EXCEPT !.consignments = data.consignments]
                /\ multiState' = getDerivedStateFromProps(multiProps',
                                     syncItems(multiState, op.key, op.address, data))
          /\ multiCalls' =
                IF op.handler = "save"
                THEN Started(Settled(multiCalls, op),
                             [op EXCEPT !.stage = "create", !.assigned = TRUE])
                ELSE Settled(multiCalls, op)
          /\ multiLast' = Step("assignResolved", op.address, "", TRUE)
    /\ UNCHANGED <<mapVars, singleVars, schemaVars, multiErrors, multiOps>>

\* assignItem rejects (lines 238-242), and handleSaveAddress goes on to
\* createCustomerAddress (lines 184-185)
AssignRejects ==
    /\ \E op \in BagToSet(multiCalls), reason \in Rejections :
          /\ op.stage = "assign"
          /\ multiErrors' = AssignFailureReported(multiErrors, reason)
          /\ multiCalls' =
                IF op.handler = "save"
                THEN Started(Settled(multiCalls, op), [op EXCEPT !.stage = "create"])
                ELSE Settled(multiCalls, op)
          /\ multiLast' = Step("assignRejected", op.address, reason, FALSE)
    /\ UNCHANGED <<mapVars, singleVars, schemaVars, multiProps, multiState, multiOps>>

\* createCustomerAddress resolves (lines 185, 192-194)
CreateResolves ==
    /\ \E op \in BagToSet(multiCalls) :
          /\ op.stage = "create"
          /\ multiState' = getDerivedStateFromProps(multiProps,
                               [multiState EXCEPT !.itemAddingAddress = NoItem])
          /\ multiCalls' = Settled(multiCalls, op)
          /\ multiLast' = Step("createResolved", op.address, "", op.assigned)
    /\ UNCHANGED <<mapVars, singleVars, schemaVars, multiProps, multiErrors, multiOps>>

\* createCustomerAddress throws or rejects (lines 186-194)
CreateRejects ==
    /\ \E op \in BagToSet(multiCalls), reason \in Rejections :
          /\ op.stage = "create"
          /\ multiState' = getDerivedStateFromProps(multiProps,
                               [CreateFailureStored(multiState, reason) EXCEPT
                                   !.itemAddingAddress = NoItem])
          /\ multiCalls' = Settled(multiCalls, op)
          /\ multiLast' = Step("createRejected", op.address, reason, op.assigned)
    /\ UNCHANGED <<mapVars, singleVars, schemaVars, multiProps, multiErrors, multiOps>>

MultiNext ==
    \/ CartChanges
    \/ handleUseNewAddress
    \/ handleCloseAddAddressForm
    \/ handleCloseErrorModal
    \/ handleSelectAddress
    \/ handleSaveAddress
    \/ AssignResolves
    \/ AssignRejects
    \/ CreateResolves
    \/ CreateRejects

MultiSpec == MultiInit /\ [][MultiNext]_vars

\* a handler step that found its address invalid for the fields of its country
InvalidSelectionStep ==
    /\ multiOps' = multiOps + 1
    /\ multiLast'.event \in {"select", "save"}
    /\ ~isValidAddress(multiLast'.address,
                       getFields(AddressGet(multiLast'.address, "countryCode")),
                       multiProps.validateAddressFields)

AssignCalls(calls) == { op \in BagToSet(calls) : op.stage = "assign" }

\* C6: a selection whose address fails validation against the fields of its
\* country gives onUnhandledError an invalid-address error, starts no
\* assignItem call and leaves this.state as it was.
C6_InvalidSelectionStopsEarly ==
    [][ InvalidSelectionStep =>
          /\ multiErrors' = Append(multiErrors, "AssignItemInvalidAddressError")
          /\ AssignCalls(multiCalls') = AssignCalls(multiCalls)
          /\ \A op \in AssignCalls(multiCalls) : multiCalls'[op] = multiCalls[op]
          /\ multiState' = multiState ]_vars

\* an item's select was given an invalid address while nothing was in flight
C6_Witness ==
    /\ multiLast.event = "select"
    /\ ~isValidAddress(multiLast.address,
                       getFields(AddressGet(multiLast.address, "countryCode")),
                       multiProps.validateAddressFields)
    /\ multiErrors # <<>>
    /\ multiErrors[Len(multiErrors)] = "AssignItemInvalidAddressError"
    /\ multiCalls = EmptyBag

\* C7: when assignItem fails, onUnhandledError receives the failure wrapped
\* in an assignment-failed error, and the item list stays as it was.
C7_AssignFailureIsReported ==
    [][ (multiLast'.event = "assignRejected" /\ multiCalls' # multiCalls) =>
          /\ multiErrors' = Append(multiErrors, "AssignItemFailedError")
          /\ multiState'.items = multiState.items ]_vars

\* C8: when createCustomerAddress fails after a successful assignment, the
\* item list is retained, createCustomerAddressError holds that failure, and
\* onUnhandledError receives nothing for it.
C8_CreateFailureIsStored ==
    [][ ( /\ multiLast'.event = "createRejected"
          /\ multiLast'.assigned
          /\ multiCalls' # multiCalls ) =>
          /\ multiState'.items = multiState.items
          /\ multiState'.createCustomerAddressError = multiLast'.reason
          /\ multiErrors' = multiErrors ]_vars


\* a render with new props and no setState of the component
PropsUpdateStep == multiLast'.event = "render" /\ multiOps' = multiOps + 1

\* C20: the item list has as many entries as the cart has shippable items;
\* a props update rebuilds it from the cart and the consignments when the count
\* differs from the length of the list, and leaves it as it was otherwise.
C20_ItemListFollowsCart ==
    /\ [](Len(multiState.items) = getShippableItemsCount(multiProps.cart))
    /\ [][ PropsUpdateStep =>
             multiState'.items =
                 IF getShippableItemsCount(multiProps'.cart) # Len(multiState.items)
                 THEN getShippableLineItems(multiProps'.cart, multiProps'.consignments)
                 ELSE multiState.items ]_vars

\* a props update brought a cart of the same count and other line items, and
\* the list was left as it was
C20_Witness ==
    /\ multiLast.event = "render"
    /\ multiProps.cart = CartC
    /\ Len(multiState.items) = getShippableItemsCount(multiProps.cart)
    /\ multiState.items # getShippableLineItems(multiProps.cart, multiProps.consignments)

\* the assignItem call of an item's address select resolves
SelectResolvedStep(op) ==
    /\ op.handler = "select"
    /\ multiCalls[op] > 0
    /\ multiCalls' = Settled(multiCalls, op)
    /\ multiLast'.event = "assignResolved"

\* a handleSelectAddress step whose address passed validation
ValidSelectionStep ==
    /\ multiOps' = multiOps + 1
    /\ multiLast'.event = "select"
    /\ isValidAddress(multiLast'.address,
                      getFields(AddressGet(multiLast'.address, "countryCode")),
                      multiProps.validateAddressFields)

CreateCalls(calls) == { op \in BagToSet(calls) : op.stage = "create" }

\* C23: createCustomerAddress is called only after the new address was
\* assigned to the pending item: an invalid address, or one whose assignItem
\* failed, is not saved as a customer address.
C23_CreateOnlyAfterAssignment ==
    \A op \in CreateCalls(multiCalls) : op.assigned
\* ------------------------------------------------- the schema selection
SchemaMethods ==
    { NoMethod, BraintreeAcceleratedCheckout, PayPalCommerceAcceleratedCheckout,
      "amazonpay", "applepay" }

\* form values: a country, a city that may be empty, and the required custom
\* field of the US absent, empty or filled
SchemaForms ==
    { [top |-> AddressTop(country, city, "", ""), hasCustomFields |-> custom # "absent",
       customFields |-> IF custom = "absent" THEN EmptyObject
                        ELSE [n \in {"field_25"} |-> Str(custom)]] :
        country \in {"US", "CA"}, city \in {"", "Paris"}, custom \in {"absent", "", "gift"} }

SchemaInit ==
    /\ MapIdle
    /\ SingleIdle
    /\ MultiIdle
    /\ schemaInput \in [methodId : SchemaMethods, values : SchemaForms]
    /\ schemaResult = [done |-> FALSE, schema |-> "", isValid |-> FALSE]

\* Formik builds the schema for the props and validates the form values
\* (lines 447-468)
ValidateShippingAddress ==
    /\ ~schemaResult.done
    /\ schemaResult' = [done |-> TRUE,
                        schema |-> validationSchema(schemaInput.methodId),
                        isValid |-> ValidateForm(schemaInput.methodId, schemaInput.values)]
    /\ UNCHANGED <<mapVars, singleVars, multiVars, schemaInput>>

SchemaNext == ValidateShippingAddress

SchemaSpec == SchemaInit /\ [][SchemaNext]_vars

ExclusionSet == { BraintreeAcceleratedCheckout, PayPalCommerceAcceleratedCheckout }

\* C10 as stated: a method of the exclusion set gets the relaxed custom-field
\* schema, and every other method, and no method, the full schema.
C10_ExcludedMethodsGetRelaxedSchema ==
    schemaResult.done =>
        schemaResult.schema =
            IF schemaInput.methodId \in ExclusionSet
            THEN "getCustomFormFieldsValidationSchema"
            ELSE "getAddressFormFieldsValidationSchema"

\* C10 as amended: the schema depends on the method identifier only; a
\* method outside the exclusion set gets the relaxed custom-field schema,
\* which accepts every form, and a method of the exclusion set, and no
\* method, the full schema.
C10_OtherMethodsGetRelaxedSchema ==
    schemaResult.done =>
        /\ schemaResult.schema =
              IF schemaInput.methodId # NoMethod /\ schemaInput.methodId \notin ExclusionSet
              THEN "getCustomFormFieldsValidationSchema"
              ELSE "getAddressFormFieldsValidationSchema"
        /\ schemaResult.schema = "getCustomFormFieldsValidationSchema" => schemaResult.isValid

\* a form with an empty required city was validated for a method outside
\* the exclusion set
C10_Witness ==
    /\ schemaResult.done
    /\ schemaInput.methodId = "amazonpay"
    /\ schemaInput.values.top["city"] = Str("")
    /\ schemaResult.isValid

====
